---- MODULE Spec2Model ----
(***************************************************************************)
(* A model of the memdb stash of the symbol server                         *)
(* (src/src/memdb/stash.rs): the durable sync state, the reconciliation    *)
(* with the remote catalog (sync), the health check (get_sync_status) and  *)
(* the cache of opened databases (get_memdb).                              *)
(*                                                                         *)
(* The disk is modelled by three variables: the canonical state file       *)
(* (sync.state), the temporary state file (sync.tempstate) and one         *)
(* database file per identity.  A file is absent, partially written, or    *)
(* complete.  The process can crash at any point: a crash loses every      *)
(* in-memory value and keeps the disk.                                     *)
(***************************************************************************)
EXTENDS Integers, Sequences, FiniteSets, TLC

\* ------------------------------------------------------------------ bounds

MaxRevision == 4      \* no sync call starts at this revision or a later one
MaxFuzzInfos == 11    \* the identities a local state given to
                      \* fuzzy_match_sdk_id can hold

\* -------------------------------------------------------------- constants

MaxMatches == 10          \* `.take(10)`
NoMatchScore == 99999     \* `.unwrap_or(99999)`

\* ------------------------------------------------------------- data model

\* The identities (SdkInfo) the remote catalog can publish, in their order.
SdkInfos == {1, 2}
\* The versions of one identity the remote can publish: each stands for a
\* content fingerprint (etag) and a byte size.
Versions == {"a", "b"}

Syncers == {"s1", "s2"}
Workers == {"w1", "w2"}

\* Option<T>: None is the empty sequence, Some(x) the one-element sequence.
None == <<>>
Some(x) == <<x>>
IsSome(o) == o /= <<>>
Unwrap(o) == o[1]
unwrap_or(o, d) == IF o = <<>> THEN d ELSE o[1]

\* RemoteSdk::new: one entry of the remote catalog.
RemoteSdk(info, v) ==
    [filename |-> info, info |-> info, size |-> v, etag |-> v]

\* The catalogs the remote can hold: a map from identity to entry.
Catalogs ==
    UNION { [S -> Versions] : S \in SUBSET SdkInfos }
CatalogSdks(c) == [i \in DOMAIN c |-> RemoteSdk(i, c[i])]

\* SdkSyncState { sdks, revision } and its Default.
SdkSyncState(sdks, revision) == [sdks |-> sdks, revision |-> revision]
EmptyMap == [i \in {} |-> 0]
DefaultState == SdkSyncState(EmptyMap, None)

\* SdkSyncState::get_sdk / update_sdk / remove_sdk / sdks (the identities).
get_sdk(state, info) ==
    IF info \in DOMAIN state.sdks THEN Some(state.sdks[info]) ELSE None
state_remove_sdk_kept(state, info) == state
state_remove_sdk(state, info) ==
    [state EXCEPT !.sdks = [i \in (DOMAIN state.sdks) \ {info} |-> state.sdks[i]]]
state_update_sdk(state, sdk) ==
    [state EXCEPT !.sdks =
        [i \in (DOMAIN state.sdks) \cup {sdk.info} |->
            IF i = sdk.info THEN sdk ELSE state.sdks[i]]]
state_infos(state) == DOMAIN state.sdks
bump_revision(state) ==
    [state EXCEPT !.revision = Some(unwrap_or(state.revision, 0) + 1)]

\* Files.  A file is absent, partially written, or complete.
Absent == [kind |-> "absent"]
Partial == [kind |-> "partial"]
StateFileOf(state) == [kind |-> "state", state |-> state]
MemdbFileOf(sdk) == [kind |-> "memdb", sdk |-> sdk]

\* sdks.sort_by(|a, b| b.cmp(a)): the identities in descending order.
RECURSIVE SortDesc(_)
SortDesc(S) ==
    IF S = {} THEN <<>>
    ELSE LET m == CHOOSE x \in S : \A y \in S : y <= x
         IN  <<m>> \o SortDesc(S \ {m})

\* ---------------------------------------------------------------- state

VARIABLES
    remote,             \* the remote catalog: identity -> version
    s3,                 \* the remote: "up", "unavailable" or "broken"
    ignore_patterns,    \* the identities the configured patterns match
    stateFile,          \* sync.state on disk
    tmpFile,            \* sync.tempstate on disk
    files,              \* the database file of each identity on disk
    local_state,        \* MemDbStash.local_state: Option<Arc<SdkSyncState>>
    memdbs,             \* MemDbStash.memdbs: identity -> handle
    spc,                \* where each sync call stands
    sync_local_state,   \* sync's working copy `local_state`
    sync_remote_state,  \* sync's `remote_state`
    sync_sdks,          \* sync's `sdks` still to be processed
    to_delete,          \* sync's `to_delete`
    sync_res,           \* the result of each syncer's last call
    run,                \* what the current/last sync call did (history)
    lastOk,             \* the catalog and revision of the last sync call, when
                        \* it returned Ok and nothing failed since (history)
    rpc,                \* where the get_sync_status call stands
    r_state,            \* get_sync_status's `local_state`
    r_res,              \* the result of the last get_sync_status call
    gpc,                \* where each worker's get_memdb call stands
    g_info,             \* get_memdb's `info`
    g_state,            \* get_memdb's `local_state`
    g_memdb,            \* get_memdb's `memdb`, the handle it constructed
    g_res,              \* the result of each worker's last get_memdb call
    g_call,             \* what held when that call started (history)
    fz                  \* the fuzzy_match_sdk_id call: its inputs and result

syncVars == <<spc, sync_local_state, sync_remote_state, sync_sdks, to_delete,
              sync_res, run, lastOk>>
diskVars == <<stateFile, tmpFile, files>>
readerVars == <<rpc, r_state, r_res, fz>>
getterVars == <<gpc, g_info, g_state, g_memdb, g_res, g_call>>
vars == <<remote, s3, ignore_patterns, stateFile, tmpFile, files, local_state,
          memdbs, spc, sync_local_state, sync_remote_state, sync_sdks,
          to_delete, sync_res, run, lastOk, rpc, r_state, r_res,
          gpc, g_info, g_state, g_memdb, g_res, g_call, fz>>

NoRun == [start |-> None, fetched |-> {}, evicted |-> {}, deleted |-> {},
          fetch |-> None]

\* The result of a call: none yet, an error, or a value.
NoResult == [kind |-> "none"]
Err(e) == [kind |-> "err", err |-> e]
Ok(v) == [kind |-> "ok", value |-> v]

\* No fuzzy_match_sdk_id call is under way.
NoFuzzy == [pc |-> "idle"]

\* MemDbStash::new on a fresh symbol directory.
Init ==
    /\ remote \in Catalogs
    /\ s3 = "up"
    /\ ignore_patterns \in {{}, {1}}
    /\ stateFile = Absent
    /\ tmpFile = Absent
    /\ files = [i \in SdkInfos |-> Absent]
    /\ local_state = None
    /\ memdbs = EmptyMap
    /\ spc = [p \in Syncers |-> "idle"]
    /\ sync_local_state = [p \in Syncers |-> DefaultState]
    /\ sync_remote_state = [p \in Syncers |-> DefaultState]
    /\ sync_sdks = [p \in Syncers |-> <<>>]
    /\ to_delete = [p \in Syncers |-> {}]
    /\ sync_res = [p \in Syncers |-> "none"]
    /\ run = [p \in Syncers |-> NoRun]
    /\ lastOk = None
    /\ rpc = "idle"
    /\ r_state = DefaultState
    /\ r_res = NoResult
    /\ gpc = [w \in Workers |-> "idle"]
    /\ g_info = [w \in Workers |-> 1]
    /\ g_state = [w \in Workers |-> DefaultState]
    /\ g_memdb = [w \in Workers |-> None]
    /\ g_res = [w \in Workers |-> NoResult]
    /\ g_call = [w \in Workers |-> None]
    /\ fz = NoFuzzy

\* --------------------------------------------------- the durable state store

\* read_local_state, the file part: an absent file is the default state, a
\* file that does not parse is an error.
ReadStateFile ==
    CASE stateFile.kind = "absent" -> [ok |-> TRUE, rv |-> DefaultState]
      [] stateFile.kind = "state"  -> [ok |-> TRUE, rv |-> stateFile.state]
      [] OTHER                     -> [ok |-> FALSE, rv |-> DefaultState]

\* get_revision: the revision the state file holds, 0 when it holds none.
get_revision == unwrap_or(ReadStateFile.rv.revision, 0)

\* save_state: File::create(tmp), then to_writer, then rename over the
\* canonical file.  Each is one step of the disk.
SaveCreateDiskInPlace ==
    /\ stateFile' = Partial
    /\ UNCHANGED <<tmpFile, files>>

SaveCreateDisk ==
    /\ tmpFile' = Partial
    /\ UNCHANGED <<stateFile, files>>

SaveWriteDisk(new_state) ==
    /\ tmpFile' = StateFileOf(new_state)
    /\ UNCHANGED <<stateFile, files>>

\* The mutant of SaveRenameDisk that leaves the canonical file alone.
SaveRenameDiskSkipped == UNCHANGED <<stateFile, tmpFile, files>>

SaveRenameDisk ==
    /\ stateFile' = tmpFile
    /\ tmpFile' = Absent
    /\ UNCHANGED files

\* ------------------------------------------------------------- the remote

\* S3::list_upstream_sdks: the catalog, or the Unavailable error, or another
\* error.
list_upstream_sdks ==
    CASE s3 = "up"          -> [ok |-> TRUE, sdks |-> CatalogSdks(remote), err |-> "none"]
      [] s3 = "unavailable" -> [ok |-> FALSE, sdks |-> EmptyMap, err |-> "unavailable"]
      [] OTHER              -> [ok |-> FALSE, sdks |-> EmptyMap, err |-> "list_error"]

\* fetch_remote_state: the listed entries keyed by identity, no revision.
fetch_remote_state == SdkSyncState(list_upstream_sdks.sdks, None)

\* --------------------------------------------------------------------- sync

\* The mutant of sdk_is_ignored that matches nothing.
sdk_is_ignored_never(info) == FALSE

\* sdk_is_ignored, lines 327-329; a pattern is modelled by the identity it
\* matches.
sdk_is_ignored(info) == info \in ignore_patterns

\* `local_sdk != sdk`: the derived PartialEq of RemoteSdk.
sdk_differs_always(local_sdk, sdk) == TRUE
sdk_differs(local_sdk, sdk) == local_sdk /= sdk

\* The mutant of commit_change that leaves the revision as it is.
commit_change_unbumped(state, sdk) == state_update_sdk(state, sdk)

\* Lines 363-364: the working copy takes the entry and the revision is bumped.
commit_change(state, sdk) == bump_revision(state_update_sdk(state, sdk))

\* Line 394: "save us one last time".
final_bump_skipped(state) == state
final_bump(state) == bump_revision(state)

\* The head of sync_sdks is done: `to_delete.remove(sdk_info)` and the loop
\* moves on (line 375).
LoopAdvance(p) ==
    /\ to_delete' = [to_delete EXCEPT ![p] = @ \ {Head(sync_sdks[p])}]
    /\ sync_sdks' = [sync_sdks EXCEPT ![p] = Tail(@)]

\* sync returns `res` to its caller.
SyncReturn(p, res) ==
    /\ spc' = [spc EXCEPT ![p] = "returned"]
    /\ sync_res' = [sync_res EXCEPT ![p] = res]
    /\ UNCHANGED <<sync_local_state, sync_remote_state, sync_sdks, to_delete,
                   run, lastOk>>

\* The caller has taken the result, and the locals of the call are gone.
\* The history keeps, of a call that returned Ok, the catalog it fetched,
\* the revision it left, the identities whose handle it evicted and the
\* identities it fetched that had no local entry.
SyncDone(p) ==
    /\ spc[p] = "returned"
    /\ spc' = [spc EXCEPT ![p] = "idle"]
    /\ lastOk' = IF sync_res[p] = "ok"
                 THEN Some([remote |-> sync_remote_state[p].sdks,
                            revision |-> get_revision,
                            refetched |-> run[p].evicted,
                            added |-> run[p].fetched
                                \ state_infos(Unwrap(run[p].start))])
                 ELSE None
    /\ sync_res' = [sync_res EXCEPT ![p] = "none"]
    /\ sync_local_state' = [sync_local_state EXCEPT ![p] = DefaultState]
    /\ sync_remote_state' = [sync_remote_state EXCEPT ![p] = DefaultState]
    /\ sync_sdks' = [sync_sdks EXCEPT ![p] = <<>>]
    /\ to_delete' = [to_delete EXCEPT ![p] = {}]
    /\ run' = [run EXCEPT ![p] = NoRun]
    /\ UNCHANGED <<remote, s3, ignore_patterns, diskVars, local_state, memdbs>>
    /\ UNCHANGED <<readerVars, getterVars>>

\* sync goes on to its next step.
SyncGoto(p, label) ==
    /\ spc' = [spc EXCEPT ![p] = label]
    /\ UNCHANGED <<sync_res, lastOk>>

\* A caller starts sync; line 333, read_local_state: the state file is read
\* and parsed.
SyncReadLocalState(p) ==
    /\ spc[p] = "idle"
    /\ get_revision < MaxRevision
    /\ IF ReadStateFile.ok
       THEN /\ sync_local_state' = [sync_local_state EXCEPT ![p] = ReadStateFile.rv]
            /\ run' = [run EXCEPT ![p].start = Some(ReadStateFile.rv)]
            /\ SyncGoto(p, "set_local_state")
            /\ UNCHANGED <<sync_remote_state, sync_sdks, to_delete>>
       ELSE SyncReturn(p, "corrupt_state")
    /\ UNCHANGED <<remote, s3, ignore_patterns, diskVars, local_state, memdbs>>
    /\ UNCHANGED <<readerVars, getterVars>>

\* Lines 195-196 of read_local_state: the snapshot is replaced.
SyncSetLocalState(p) ==
    /\ spc[p] = "set_local_state"
    /\ local_state' = Some(sync_local_state[p])
    /\ SyncGoto(p, "fetch_remote_state")
    /\ UNCHANGED <<remote, s3, ignore_patterns, diskVars, memdbs, sync_local_state,
                   sync_remote_state, sync_sdks, to_delete, run>>
    /\ UNCHANGED <<readerVars, getterVars>>

\* The mutant of SyncFetchRemoteState that takes a failed listing for an
\* empty catalog.
SyncFetchRemoteStateLenient(p) ==
    /\ spc[p] = "fetch_remote_state"
    /\ sync_remote_state' = [sync_remote_state EXCEPT ![p] = fetch_remote_state]
    /\ to_delete' = [to_delete EXCEPT ![p] = state_infos(sync_local_state[p])]
    /\ sync_sdks' = [sync_sdks EXCEPT
           ![p] = SortDesc(state_infos(fetch_remote_state))]
    /\ SyncGoto(p, "loop")
    /\ UNCHANGED <<sync_local_state, run>>
    /\ UNCHANGED <<remote, s3, ignore_patterns, diskVars, local_state, memdbs>>
    /\ UNCHANGED <<readerVars, getterVars>>

\* Lines 334-341: the catalog is listed (or the listing fails), to_delete
\* and the descending list of remote identities are built.
SyncFetchRemoteState(p) ==
    /\ spc[p] = "fetch_remote_state"
    /\ IF list_upstream_sdks.ok
       THEN /\ sync_remote_state' = [sync_remote_state EXCEPT
                   ![p] = fetch_remote_state]
            /\ to_delete' = [to_delete EXCEPT
                   ![p] = state_infos(sync_local_state[p])]
            /\ sync_sdks' = [sync_sdks EXCEPT
                   ![p] = SortDesc(state_infos(fetch_remote_state))]
            /\ SyncGoto(p, "loop")
            /\ UNCHANGED <<sync_local_state, run>>
       ELSE SyncReturn(p, list_upstream_sdks.err)
    /\ UNCHANGED <<remote, s3, ignore_patterns, diskVars, local_state, memdbs>>
    /\ UNCHANGED <<readerVars, getterVars>>

\* Lines 343-360 and 367-375: the next remote identity is looked at.  An
\* ignored or unchanged one is passed over; a missing or different one is
\* fetched.  With no identity left the loop ends.
SyncLoop(p) ==
    /\ spc[p] = "loop"
    /\ IF sync_sdks[p] = <<>>
       THEN /\ SyncGoto(p, "delete")
            /\ UNCHANGED <<sync_sdks, to_delete>>
       ELSE LET sdk_info == Head(sync_sdks[p])
                sdk == sync_remote_state[p].sdks[sdk_info]
                local_sdk == get_sdk(sync_local_state[p], sdk_info)
            IN  IF sdk_is_ignored(sdk_info)
                THEN LoopAdvance(p) /\ SyncGoto(p, "loop")
                ELSE IF IsSome(local_sdk) /\ ~sdk_differs(Unwrap(local_sdk), sdk)
                THEN LoopAdvance(p) /\ SyncGoto(p, "loop")
                ELSE /\ SyncGoto(p, "update_sdk")
                     /\ UNCHANGED <<sync_sdks, to_delete>>
    /\ UNCHANGED <<remote, s3, ignore_patterns, diskVars, local_state, memdbs,
                   sync_local_state, sync_remote_state, run>>
    /\ UNCHANGED <<readerVars, getterVars>>

\* update_sdk, lines 236-238: the object is downloaded (into memory); when
\* that fails nothing was touched.  Then File::create truncates the
\* destination file, which the decoder will stream into.
UpdateSdkCreate(p) ==
    /\ spc[p] = "update_sdk"
    /\ LET sdk_info == Head(sync_sdks[p])
       IN  \E ok \in BOOLEAN :
             IF ok
             THEN /\ files' = [files EXCEPT ![sdk_info] = Partial]
                  /\ run' = [run EXCEPT
                        ![p].fetched = @ \cup {sdk_info},
                        ![p].fetch = Some([info |-> sdk_info,
                                           file |-> files[sdk_info],
                                           stateFile |-> stateFile])]
                  /\ SyncGoto(p, "copy")
                  /\ UNCHANGED <<sync_local_state, sync_remote_state,
                                 sync_sdks, to_delete>>
             ELSE /\ SyncReturn(p, "download_error")
                  /\ UNCHANGED files
    /\ UNCHANGED <<remote, s3, ignore_patterns, stateFile, tmpFile, local_state,
                   memdbs>>
    /\ UNCHANGED <<readerVars, getterVars>>

\* update_sdk, line 239: copy_with_progress runs to its end, or fails
\* partway and leaves what it wrote.  After a copy of an identity with no
\* local entry the change is committed to the working copy (lines 358-364).
UpdateSdkCopy(p) ==
    /\ spc[p] = "copy"
    /\ LET sdk_info == Head(sync_sdks[p])
           sdk == sync_remote_state[p].sdks[sdk_info]
           local_sdk == get_sdk(sync_local_state[p], sdk_info)
       IN  \E ok \in BOOLEAN :
             IF ok
             THEN /\ files' = [files EXCEPT ![sdk_info] = MemdbFileOf(sdk)]
                  /\ IF IsSome(local_sdk)
                     THEN /\ SyncGoto(p, "evict")
                          /\ UNCHANGED sync_local_state
                     ELSE /\ SyncGoto(p, "save_create")
                          /\ sync_local_state' = [sync_local_state EXCEPT
                                ![p] = commit_change(@, sdk)]
                  /\ UNCHANGED <<sync_remote_state, sync_sdks, to_delete, run>>
             ELSE /\ SyncReturn(p, "copy_error")
                  /\ UNCHANGED files
    /\ UNCHANGED <<remote, s3, ignore_patterns, stateFile, tmpFile, local_state,
                   memdbs>>
    /\ UNCHANGED <<readerVars, getterVars>>

\* The mutant of memdbs_remove that empties the cache.
memdbs_remove_all(m, info) == EmptyMap

\* memdbs.write().remove(info)
memdbs_remove(m, info) == [i \in (DOMAIN m) \ {info} |-> m[i]]

\* Lines 350-351 and 361-364: the cached handle of a re-fetched identity is
\* evicted and the change is committed to the working copy.
SyncEvict(p) ==
    /\ spc[p] = "evict"
    /\ LET sdk_info == Head(sync_sdks[p])
           sdk == sync_remote_state[p].sdks[sdk_info]
       IN  /\ memdbs' = memdbs_remove(memdbs, sdk_info)
           /\ run' = [run EXCEPT ![p].evicted = @ \cup {sdk_info}]
           /\ sync_local_state' = [sync_local_state EXCEPT
                 ![p] = commit_change(@, sdk)]
    /\ SyncGoto(p, "save_create")
    /\ UNCHANGED <<remote, s3, ignore_patterns, diskVars, local_state,
                   sync_remote_state, sync_sdks, to_delete>>
    /\ UNCHANGED <<readerVars, getterVars>>

\* save_local_state -> save_state, line 175: the temporary file is created.
SaveCreate(p) ==
    /\ spc[p] = "save_create"
    /\ SaveCreateDisk
    /\ SyncGoto(p, "save_write")
    /\ UNCHANGED <<remote, s3, ignore_patterns, local_state, memdbs,
                   sync_local_state, sync_remote_state, sync_sdks, to_delete,
                   run>>
    /\ UNCHANGED <<readerVars, getterVars>>

\* save_state, line 176: the new state is serialized into the temporary file.
SaveWrite(p) ==
    /\ spc[p] = "save_write"
    /\ SaveWriteDisk(sync_local_state[p])
    /\ SyncGoto(p, "save_rename")
    /\ UNCHANGED <<remote, s3, ignore_patterns, local_state, memdbs,
                   sync_local_state, sync_remote_state, sync_sdks, to_delete,
                   run>>
    /\ UNCHANGED <<readerVars, getterVars>>

\* save_state, line 179: the temporary file is renamed over the canonical
\* one; with no temporary file to rename the call fails.
SaveRename(p) ==
    /\ spc[p] = "save_rename"
    /\ IF tmpFile.kind = "absent"
       THEN /\ SyncReturn(p, "io_error")
            /\ UNCHANGED diskVars
       ELSE /\ SaveRenameDisk
            /\ SyncGoto(p, "save_swap")
            /\ UNCHANGED <<sync_local_state, sync_remote_state, sync_sdks,
                           to_delete, run>>
    /\ UNCHANGED <<remote, s3, ignore_patterns, local_state, memdbs>>
    /\ UNCHANGED <<readerVars, getterVars>>

\* save_local_state, lines 210-211: the snapshot is replaced.  After the
\* save of a fetched identity the loop moves on; after the last save sync
\* returns Ok.
SaveSwap(p) ==
    /\ spc[p] = "save_swap"
    /\ local_state' = Some(sync_local_state[p])
    /\ IF sync_sdks[p] /= <<>>
       THEN /\ LoopAdvance(p)
            /\ SyncGoto(p, "loop")
            /\ UNCHANGED <<sync_local_state, sync_remote_state, run>>
       ELSE SyncReturn(p, "ok")
    /\ UNCHANGED <<remote, s3, ignore_patterns, diskVars, memdbs>>
    /\ UNCHANGED <<readerVars, getterVars>>

\* Lines 378-384, one identity of to_delete: it is removed from the working
\* copy, and then looked up in the working copy; when the lookup finds it,
\* its file is removed (an absent file is fine) and its handle evicted.
SyncDelete(p) ==
    /\ spc[p] = "delete"
    /\ to_delete[p] /= {}
    /\ \E sdk_info \in to_delete[p] :
         LET removed == state_remove_sdk(sync_local_state[p], sdk_info)
             found == get_sdk(removed, sdk_info)
         IN  /\ sync_local_state' = [sync_local_state EXCEPT ![p] = removed]
             /\ to_delete' = [to_delete EXCEPT ![p] = @ \ {sdk_info}]
             /\ IF IsSome(found)
                THEN /\ files' = [files EXCEPT ![sdk_info] = Absent]
                     /\ memdbs' = memdbs_remove(memdbs, sdk_info)
                     /\ run' = [run EXCEPT
                           ![p].deleted = @ \cup {sdk_info},
                           ![p].evicted = @ \cup {sdk_info}]
                ELSE UNCHANGED <<files, memdbs, run>>
    /\ SyncGoto(p, "delete")
    /\ UNCHANGED <<remote, s3, ignore_patterns, stateFile, tmpFile, local_state,
                   sync_remote_state, sync_sdks>>
    /\ UNCHANGED <<readerVars, getterVars>>

\* Lines 393-395: after the deletions the revision is bumped once more and
\* the state saved.
SyncFinalBump(p) ==
    /\ spc[p] = "delete"
    /\ to_delete[p] = {}
    /\ sync_local_state' = [sync_local_state EXCEPT ![p] = final_bump(@)]
    /\ SyncGoto(p, "save_create")
    /\ UNCHANGED <<remote, s3, ignore_patterns, diskVars, local_state, memdbs,
                   sync_remote_state, sync_sdks, to_delete, run>>
    /\ UNCHANGED <<readerVars, getterVars>>

\* The steps of a sync call after its first.
SyncSteps(p) ==
    \/ SyncSetLocalState(p)
    \/ SyncFetchRemoteState(p)
    \/ SyncLoop(p)
    \/ UpdateSdkCreate(p)
    \/ UpdateSdkCopy(p)
    \/ SyncEvict(p)
    \/ SaveCreate(p)
    \/ SaveWrite(p)
    \/ SaveRename(p)
    \/ SaveSwap(p)
    \/ SyncDelete(p)
    \/ SyncFinalBump(p)
    \/ SyncDone(p)

Sync(p) ==
    \/ SyncReadLocalState(p)
    \/ SyncSteps(p)

\* ---------------------------------------------------------- get_sync_status

\* SyncStatus::lag
lag(status) == status.missing + status.different

\* SyncStatus::is_healthy: `lag / total < 0.10` in f32.  With total = 0 the
\* quotient is NaN (or infinite), and the comparison is false.
is_healthy(status) ==
    IF status.offline
    THEN TRUE
    ELSE status.remote_total /= 0 /\ 10 * lag(status) < status.remote_total

\* The mutant of count_sdks that counts an entry in remote_total only when
\* it has a local counterpart.
RECURSIVE count_sdks_known_only(_, _, _)
count_sdks_known_only(local, remote_sdks, todo) ==
    IF todo = {}
    THEN [remote_total |-> 0, missing |-> 0, different |-> 0]
    ELSE LET info == CHOOSE x \in todo : TRUE
             rest == count_sdks_known_only(local, remote_sdks, todo \ {info})
             local_sdk == get_sdk(local, info)
         IN  IF info \in ignore_patterns
             THEN rest
             ELSE [remote_total |-> rest.remote_total
                       + (IF IsSome(local_sdk) THEN 1 ELSE 0),
                   missing |-> rest.missing
                       + (IF IsSome(local_sdk) THEN 0 ELSE 1),
                   different |-> rest.different
                       + (IF IsSome(local_sdk)
                             /\ Unwrap(local_sdk) /= remote_sdks[info]
                          THEN 1 ELSE 0)]

\* Lines 294-306: the loop over the remote entries, `todo` being the
\* identities it has not looked at yet.
RECURSIVE count_sdks(_, _, _)
count_sdks(local, remote_sdks, todo) ==
    IF todo = {}
    THEN [remote_total |-> 0, missing |-> 0, different |-> 0]
    ELSE LET info == CHOOSE x \in todo : TRUE
             rest == count_sdks(local, remote_sdks, todo \ {info})
             local_sdk == get_sdk(local, info)
         IN  IF sdk_is_ignored(info)
             THEN rest
             ELSE [remote_total |-> rest.remote_total + 1,
                   missing |-> rest.missing
                       + (IF IsSome(local_sdk) THEN 0 ELSE 1),
                   different |-> rest.different
                       + (IF IsSome(local_sdk)
                             /\ sdk_differs(Unwrap(local_sdk), remote_sdks[info])
                          THEN 1 ELSE 0)]

SyncStatus(counts, revision, offline) ==
    [remote_total |-> counts.remote_total, missing |-> counts.missing,
     different |-> counts.different, revision |-> revision, offline |-> offline]

\* The mutant of sync_status that treats Unavailable as any other error.
sync_status_strict(local) ==
    IF list_upstream_sdks.ok
    THEN Ok(SyncStatus(count_sdks(local, fetch_remote_state.sdks,
                                  state_infos(fetch_remote_state)),
                       unwrap_or(local.revision, 0), FALSE))
    ELSE Err(list_upstream_sdks.err)

\* Lines 287-323: what get_sync_status returns for the local state it read.
sync_status(local) ==
    IF list_upstream_sdks.ok
    THEN Ok(SyncStatus(count_sdks(local, fetch_remote_state.sdks,
                                  state_infos(fetch_remote_state)),
                       unwrap_or(local.revision, 0), FALSE))
    ELSE IF list_upstream_sdks.err = "unavailable"
    THEN Ok(SyncStatus([remote_total |-> 0, missing |-> 0, different |-> 0],
                       unwrap_or(local.revision, 0), TRUE))
    ELSE Err(list_upstream_sdks.err)

\* A caller starts get_sync_status; line 285, read_local_state: the state
\* file is read and parsed.
StatusReadLocalState ==
    /\ rpc = "idle"
    /\ UNCHANGED fz
    /\ IF ReadStateFile.ok
       THEN /\ r_state' = ReadStateFile.rv
            /\ rpc' = "set_local_state"
            /\ UNCHANGED r_res
       ELSE /\ r_res' = Err("corrupt_state")
            /\ rpc' = "returned"
            /\ UNCHANGED r_state
    /\ UNCHANGED <<remote, s3, ignore_patterns, diskVars, local_state, memdbs,
                   syncVars, getterVars>>

\* The mutant of StatusSetLocalState that also writes the state it read to
\* the state file.
StatusSetLocalStateSaving ==
    /\ rpc = "set_local_state"
    /\ UNCHANGED fz
    /\ local_state' = Some(r_state)
    /\ stateFile' = StateFileOf(r_state)
    /\ rpc' = "fetch_remote_state"
    /\ UNCHANGED <<remote, s3, ignore_patterns, tmpFile, files, memdbs,
                   syncVars, r_state, r_res, getterVars>>

\* Lines 195-196 of read_local_state: the snapshot is replaced.
StatusSetLocalState ==
    /\ rpc = "set_local_state"
    /\ UNCHANGED fz
    /\ local_state' = Some(r_state)
    /\ rpc' = "fetch_remote_state"
    /\ UNCHANGED <<remote, s3, ignore_patterns, diskVars, memdbs, syncVars,
                   r_state, r_res, getterVars>>

\* Lines 292-323: the catalog is listed, the entries are counted and the
\* status (or the error) is returned.
StatusFetchRemoteState ==
    /\ rpc = "fetch_remote_state"
    /\ UNCHANGED fz
    /\ r_res' = sync_status(r_state)
    /\ rpc' = "returned"
    /\ UNCHANGED <<remote, s3, ignore_patterns, diskVars, local_state, memdbs,
                   syncVars, r_state, getterVars>>

\* The caller has taken the result, and the locals of the call are gone.
StatusDone ==
    /\ rpc = "returned"
    /\ UNCHANGED fz
    /\ rpc' = "idle"
    /\ r_res' = NoResult
    /\ r_state' = DefaultState
    /\ UNCHANGED <<remote, s3, ignore_patterns, diskVars, local_state, memdbs,
                   syncVars, getterVars>>

GetSyncStatus ==
    \/ StatusReadLocalState
    \/ StatusSetLocalState
    \/ StatusFetchRemoteState
    \/ StatusDone

\* -------------------------------------------------------- fuzzy_match_sdk_id

\* The identities a local state given to fuzzy_match_sdk_id can hold.
FuzzInfos == 1 .. MaxFuzzInfos

\* The local states fuzzy_match_sdk_id is called on: those with few
\* identities, and those with all of them or all but one (more than
\* MaxMatches).
FuzzLocals ==
    {S \in SUBSET FuzzInfos :
        Cardinality(S) <= 3 \/ Cardinality(S) >= MaxFuzzInfos - 1}

\* The texts a caller can pass: one that names an identity, or one that
\* does not parse.
SdkIds == {[kind |-> "bad"]} \cup {[kind |-> "id", info |-> q] : q \in FuzzInfos}

\* SdkInfo::from_filename: the identity a text names, if it names one.
from_filename(sdk_id) ==
    IF sdk_id.kind = "id" THEN Some(sdk_id.info) ELSE None

\* SdkInfo::get_fuzzy_match, an algorithm of the identity type: a score
\* (lower is closer) or no match.  Three scorings stand for it: every
\* identity at the same score, the distance of the identities, and a match
\* only between identities of the same parity.
Scorings == {"flat", "distance", "parity"}
get_fuzzy_match(other, sdk_info, scoring) ==
    CASE scoring = "flat"     -> Some(0)
      [] scoring = "distance" -> Some(IF other >= sdk_info THEN other - sdk_info
                                                            ELSE sdk_info - other)
      [] OTHER                -> IF other % 2 = sdk_info % 2 THEN Some(0) ELSE None

\* local_state.sdks(): the values of a HashMap, in an order of its own.
\* Three orders stand for it: ascending, descending, and the odd identities
\* in descending order followed by the even ones in ascending order.
Orders == {"asc", "desc", "mixed"}
Reverse(seq) == [k \in 1 .. Len(seq) |-> seq[Len(seq) + 1 - k]]
sdks_iter(local, order) ==
    CASE order = "desc" -> SortDesc(local)
      [] order = "asc"  -> Reverse(SortDesc(local))
      [] OTHER          -> SortDesc({i \in local : i % 2 = 1})
                           \o Reverse(SortDesc({i \in local : i % 2 = 0}))

\* The mutant of fuzzy_key that orders ties by the identity, not by its
\* reverse.
fuzzy_key_forward(q, info, sdk_info) ==
    <<q, IF info > sdk_info THEN 1 ELSE 0, info>>

\* Line 450, the sort key `(q, info > &sdk_info, Rev(info.clone()))`: false
\* sorts before true, and Rev(info) sorts as the negated identity.
fuzzy_key(q, info, sdk_info) ==
    <<q, IF info > sdk_info THEN 1 ELSE 0, 0 - info>>

\* The derived order of the key tuples.
KeyLess(a, b) ==
    \/ a[1] < b[1]
    \/ a[1] = b[1] /\ a[2] < b[2]
    \/ a[1] = b[1] /\ a[2] = b[2] /\ a[3] < b[3]

\* sort_by_key is a stable sort: an insertion sort, each element going
\* after the elements whose key is not greater than its own.
RECURSIVE InsertByKey(_, _, _)
InsertByKey(sorted, x, sdk_info) ==
    IF sorted = <<>>
    THEN <<x>>
    ELSE IF KeyLess(fuzzy_key(x.q, x.info, sdk_info),
                    fuzzy_key(sorted[1].q, sorted[1].info, sdk_info))
    THEN <<x>> \o sorted
    ELSE <<sorted[1]>> \o InsertByKey(Tail(sorted), x, sdk_info)

RECURSIVE SortByKey(_, _)
SortByKey(rv, sdk_info) ==
    IF rv = <<>>
    THEN <<>>
    ELSE InsertByKey(SortByKey(SubSeq(rv, 1, Len(rv) - 1), sdk_info),
                     rv[Len(rv)], sdk_info)

\* Lines 439-453: every identity of the local state is scored against the
\* identity the text names, the pairs are sorted, and the identities of the
\* first MaxMatches pairs are returned; a text that names no identity gives
\* the empty list.
fuzzy_match_sdk_id(local, sdk_id, scoring, order) ==
    IF IsSome(from_filename(sdk_id))
    THEN LET sdk_info == Unwrap(from_filename(sdk_id))
             others == sdks_iter(local, order)
             rv == [k \in 1 .. Len(others) |->
                      [q |-> unwrap_or(get_fuzzy_match(others[k], sdk_info, scoring),
                                       NoMatchScore),
                       info |-> others[k]]]
             sorted == SortByKey(rv, sdk_info)
             taken == SubSeq(sorted, 1,
                             IF Len(sorted) < MaxMatches THEN Len(sorted)
                                                         ELSE MaxMatches)
         IN  [k \in 1 .. Len(taken) |-> taken[k].info]
    ELSE <<>>

\* A caller calls fuzzy_match_sdk_id on a text, with a local state that
\* holds some identities, and gets the list.
FuzzyMatch ==
    /\ fz.pc = "idle"
    /\ \E local \in FuzzLocals, sdk_id \in SdkIds,
          scoring \in Scorings, order \in Orders :
         fz' = [pc |-> "returned", local |-> local, sdk_id |-> sdk_id,
                scoring |-> scoring, order |-> order,
                rv |-> fuzzy_match_sdk_id(local, sdk_id, scoring, order)]
    /\ UNCHANGED <<remote, s3, ignore_patterns, diskVars, local_state, memdbs,
                   syncVars, rpc, r_state, r_res, getterVars>>

\* The caller has taken the list.
FuzzyDone ==
    /\ fz.pc = "returned"
    /\ fz' = NoFuzzy
    /\ UNCHANGED <<remote, s3, ignore_patterns, diskVars, local_state, memdbs,
                   syncVars, rpc, r_state, r_res, getterVars>>

\* ------------------------------------------------------------------ get_memdb

\* MemDb::from_path on a file: the results it can have.  An absent file
\* cannot be opened; a complete file gives a handle on its content; a
\* partially written file is refused, or gives a handle on what is there.
from_path(file, w) ==
    CASE file.kind = "absent"  -> {Err("io_error")}
      [] file.kind = "partial" -> {Err("bad_memdb"), Ok([file |-> file, by |-> w])}
      [] OTHER                 -> {Ok([file |-> file, by |-> w])}

\* The mutant of memdbs_insert that drops the handle.
memdbs_insert_dropped(m, info, handle) == m

\* memdbs.write().insert(info, handle): an entry already there is replaced.
memdbs_insert(m, info, handle) ==
    [i \in (DOMAIN m) \cup {info} |-> IF i = info THEN handle ELSE m[i]]

\* get_memdb returns `res` to its caller.
GetReturn(w, res) ==
    /\ gpc' = [gpc EXCEPT ![w] = "returned"]
    /\ g_res' = [g_res EXCEPT ![w] = res]
    /\ UNCHANGED <<g_state, g_memdb>>

\* The caller has taken the result, and the locals of the call are gone.
GetDone(w) ==
    /\ gpc[w] = "returned"
    /\ gpc' = [gpc EXCEPT ![w] = "idle"]
    /\ g_res' = [g_res EXCEPT ![w] = NoResult]
    /\ g_state' = [g_state EXCEPT ![w] = DefaultState]
    /\ g_memdb' = [g_memdb EXCEPT ![w] = None]
    /\ g_call' = [g_call EXCEPT ![w] = None]
    /\ UNCHANGED <<remote, s3, ignore_patterns, diskVars, local_state, memdbs,
                   syncVars, readerVars, g_info>>

\* A worker calls get_memdb(info); lines 408-410: a cached handle is
\* returned at once.  The history keeps what held when the call started.
GetCall(w) ==
    /\ gpc[w] = "idle"
    /\ \E info \in SdkInfos :
         /\ g_info' = [g_info EXCEPT ![w] = info]
         /\ g_call' = [g_call EXCEPT ![w] =
               Some([after_refetch |->
                         /\ \A p \in Syncers : spc[p] = "idle"
                         /\ IsSome(lastOk)
                         /\ info \in unwrap_or(lastOk, NoRun).refetched,
                     after_add |->
                         /\ \A p \in Syncers : spc[p] = "idle"
                         /\ IsSome(lastOk)
                         /\ info \in Unwrap(lastOk).added,
                     revision |-> get_revision,
                     known |-> info \in state_infos(ReadStateFile.rv)])]
         /\ IF info \in DOMAIN memdbs
            THEN GetReturn(w, Ok(memdbs[info]))
            ELSE /\ gpc' = [gpc EXCEPT ![w] = "get_local_state"]
                 /\ UNCHANGED <<g_state, g_memdb, g_res>>
    /\ UNCHANGED <<remote, s3, ignore_patterns, diskVars, local_state, memdbs,
                   syncVars, readerVars>>

\* Line 412, get_local_state, lines 201-203: the snapshot, when there is one.
GetLocalState(w) ==
    /\ gpc[w] = "get_local_state"
    /\ IF IsSome(local_state)
       THEN /\ g_state' = [g_state EXCEPT ![w] = Unwrap(local_state)]
            /\ gpc' = [gpc EXCEPT ![w] = "open"]
       ELSE /\ gpc' = [gpc EXCEPT ![w] = "read_local_state"]
            /\ UNCHANGED g_state
    /\ UNCHANGED <<remote, s3, ignore_patterns, diskVars, local_state, memdbs,
                   syncVars, readerVars, g_info, g_memdb, g_res, g_call>>

\* get_local_state, line 204, read_local_state: the state file is read.
GetReadLocalState(w) ==
    /\ gpc[w] = "read_local_state"
    /\ IF ReadStateFile.ok
       THEN /\ g_state' = [g_state EXCEPT ![w] = ReadStateFile.rv]
            /\ gpc' = [gpc EXCEPT ![w] = "set_local_state"]
            /\ UNCHANGED <<g_res, g_memdb>>
       ELSE GetReturn(w, Err("corrupt_state"))
    /\ UNCHANGED <<remote, s3, ignore_patterns, diskVars, local_state, memdbs,
                   syncVars, readerVars, g_info, g_call>>

\* Lines 195-196 of read_local_state: the snapshot is replaced.
GetSetLocalState(w) ==
    /\ gpc[w] = "set_local_state"
    /\ local_state' = Some(g_state[w])
    /\ gpc' = [gpc EXCEPT ![w] = "reload"]
    /\ UNCHANGED <<remote, s3, ignore_patterns, diskVars, memdbs, syncVars,
                   readerVars, g_info, g_state, g_memdb, g_res, g_call>>

\* get_local_state, line 205: the snapshot is read again.
GetReload(w) ==
    /\ gpc[w] = "reload"
    /\ g_state' = [g_state EXCEPT ![w] = Unwrap(local_state)]
    /\ gpc' = [gpc EXCEPT ![w] = "open"]
    /\ UNCHANGED <<remote, s3, ignore_patterns, diskVars, local_state, memdbs,
                   syncVars, readerVars, g_info, g_memdb, g_res, g_call>>

\* Lines 418-419 and 426: an identity the local state does not know is the
\* UnknownSdk error; the file of a known one is opened.
GetOpen(w) ==
    /\ gpc[w] = "open"
    /\ IF IsSome(get_sdk(g_state[w], g_info[w]))
       THEN \E r \in from_path(files[g_info[w]], w) :
              IF r.kind = "ok"
              THEN /\ g_memdb' = [g_memdb EXCEPT ![w] = Some(r.value)]
                   /\ gpc' = [gpc EXCEPT ![w] = "insert"]
                   /\ UNCHANGED <<g_state, g_res>>
              ELSE GetReturn(w, r)
       ELSE GetReturn(w, Err("unknown_sdk"))
    /\ UNCHANGED <<remote, s3, ignore_patterns, diskVars, local_state, memdbs,
                   syncVars, readerVars, g_info, g_call>>

\* Line 420: the handle is put into the cache.
GetInsert(w) ==
    /\ gpc[w] = "insert"
    /\ memdbs' = memdbs_insert(memdbs, g_info[w], Unwrap(g_memdb[w]))
    /\ gpc' = [gpc EXCEPT ![w] = "lookup"]
    /\ UNCHANGED <<remote, s3, ignore_patterns, diskVars, local_state,
                   syncVars, readerVars, g_info, g_state, g_memdb, g_res,
                   g_call>>

\* Lines 421-426: the cache is read again; the handle found there is
\* returned, and with none there the call fails with UnknownSdk.
GetLookup(w) ==
    /\ gpc[w] = "lookup"
    /\ IF g_info[w] \in DOMAIN memdbs
       THEN GetReturn(w, Ok(memdbs[g_info[w]]))
       ELSE GetReturn(w, Err("unknown_sdk"))
    /\ UNCHANGED <<remote, s3, ignore_patterns, diskVars, local_state, memdbs,
                   syncVars, readerVars, g_info, g_call>>

GetMemdb(w) ==
    \/ GetCall(w)
    \/ GetLocalState(w)
    \/ GetReadLocalState(w)
    \/ GetSetLocalState(w)
    \/ GetReload(w)
    \/ GetOpen(w)
    \/ GetInsert(w)
    \/ GetLookup(w)
    \/ GetDone(w)

\* -------------------------------------------------------------- environment

\* Between the calls that list the catalog the remote becomes reachable,
\* unreachable, or starts to answer with an error.
S3Change ==
    /\ \A p \in Syncers : spc[p] = "idle"
    /\ rpc = "idle"
    /\ \E c \in {"up", "unavailable", "broken"} :
         /\ c /= s3
         /\ s3' = c
    /\ UNCHANGED <<remote, ignore_patterns, diskVars, local_state, memdbs,
                   syncVars, readerVars, getterVars>>

\* The remote catalog changes between calls: an identity is published
\* (anew, or with another version) or withdrawn.
RemoteChange ==
    /\ \A p \in Syncers : spc[p] = "idle"
    /\ rpc = "idle"
    /\ \A w \in Workers : gpc[w] = "idle"
    /\ \E c \in Catalogs :
         /\ c /= remote
         /\ Cardinality({i \in SdkInfos :
                (i \in DOMAIN c) /= (i \in DOMAIN remote)
                \/ (i \in DOMAIN c /\ i \in DOMAIN remote /\ c[i] /= remote[i])}) = 1
         /\ remote' = c
    /\ UNCHANGED <<s3, ignore_patterns, diskVars, local_state, memdbs, syncVars,
                   readerVars, getterVars>>

\* The process dies and is started again (MemDbStash::new): everything in
\* memory is lost, the disk is kept.
Crash ==
    /\ local_state' = None
    /\ memdbs' = EmptyMap
    /\ spc' = [p \in Syncers |-> "idle"]
    /\ sync_local_state' = [p \in Syncers |-> DefaultState]
    /\ sync_remote_state' = [p \in Syncers |-> DefaultState]
    /\ sync_sdks' = [p \in Syncers |-> <<>>]
    /\ to_delete' = [p \in Syncers |-> {}]
    /\ sync_res' = [p \in Syncers |-> "none"]
    /\ run' = [p \in Syncers |-> NoRun]
    /\ lastOk' = None
    /\ rpc' = "idle"
    /\ r_state' = DefaultState
    /\ r_res' = NoResult
    /\ gpc' = [w \in Workers |-> "idle"]
    /\ g_info' = [w \in Workers |-> 1]
    /\ g_state' = [w \in Workers |-> DefaultState]
    /\ g_memdb' = [w \in Workers |-> None]
    /\ g_res' = [w \in Workers |-> NoResult]
    /\ g_call' = [w \in Workers |-> None]
    /\ fz' = NoFuzzy
    /\ UNCHANGED <<remote, s3, ignore_patterns, diskVars>>

\* The process is stopped between calls and opened again with another
\* configuration (MemDbStash::new, lines 157-165): the ignore patterns are
\* read anew, the snapshot and the handle cache start empty, the disk is
\* kept.
Reopen ==
    /\ \A p \in Syncers : spc[p] = "idle"
    /\ rpc = "idle"
    /\ \A w \in Workers : gpc[w] = "idle"
    /\ \E pats \in {{}, {1}} :
         /\ pats /= ignore_patterns
         /\ ignore_patterns' = pats
    /\ local_state' = None
    /\ memdbs' = EmptyMap
    /\ lastOk' = None
    /\ UNCHANGED <<remote, s3, diskVars, spc, sync_local_state,
                   sync_remote_state, sync_sdks, to_delete, sync_res, run>>
    /\ UNCHANGED <<readerVars, getterVars>>

\* ------------------------------------------------------------ specifications

\* One sync driver, the remote catalog changing between its calls, and
\* crashes.
Next ==
    \/ Sync("s1")
    \/ RemoteChange
    \/ Crash

Spec == Init /\ [][Next]_vars

\* A health check that starts while no sync call runs, and a sync call that
\* starts while no health check runs.
StatusBetweenSyncs ==
    /\ \A p \in Syncers : spc[p] = "idle"
    /\ StatusReadLocalState

SyncBetweenStatus(p) ==
    /\ rpc = "idle"
    /\ SyncReadLocalState(p)

\* One sync driver and health checks between its calls, against a remote
\* that changes its catalog and comes and goes.
NextStatus ==
    \/ SyncBetweenStatus("s1")
    \/ SyncSteps("s1")
    \/ StatusBetweenSyncs
    \/ StatusSetLocalState
    \/ StatusFetchRemoteState
    \/ StatusDone
    \/ RemoteChange
    \/ S3Change

SpecStatus == Init /\ [][NextStatus]_vars

\* A fetch that does not fail.
UpdateSdkCreateOk(p) == UpdateSdkCreate(p) /\ spc'[p] = "copy"
UpdateSdkCopyOk(p) == UpdateSdkCopy(p) /\ spc'[p] /= "returned"

\* One sync driver whose fetches succeed and one worker calling get_memdb,
\* with no ignore pattern configured and the remote catalog changing
\* between sync calls.
NextCache ==
    \/ SyncReadLocalState("s1")
    \/ SyncSetLocalState("s1")
    \/ SyncFetchRemoteState("s1")
    \/ SyncLoop("s1")
    \/ UpdateSdkCreateOk("s1")
    \/ UpdateSdkCopyOk("s1")
    \/ SyncEvict("s1")
    \/ SaveCreate("s1")
    \/ SaveWrite("s1")
    \/ SaveRename("s1")
    \/ SaveSwap("s1")
    \/ SyncDelete("s1")
    \/ SyncFinalBump("s1")
    \/ SyncDone("s1")
    \/ GetMemdb("w1")
    \/ RemoteChange

InitCache == Init /\ ignore_patterns = {}

SpecCache == InitCache /\ [][NextCache]_vars

\* A call that starts while no other call runs.
SyncAlone(p) ==
    /\ rpc = "idle"
    /\ \A w \in Workers : gpc[w] = "idle"
    /\ SyncReadLocalState(p)

StatusAlone ==
    /\ \A p \in Syncers : spc[p] = "idle"
    /\ \A w \in Workers : gpc[w] = "idle"
    /\ StatusReadLocalState

GetAlone(w) ==
    /\ \A p \in Syncers : spc[p] = "idle"
    /\ rpc = "idle"
    /\ GetCall(w)

\* Calls of sync (whose fetches succeed), get_sync_status and get_memdb one
\* after another, in a process that is reopened with other ignore patterns
\* and against a remote catalog that changes between the calls.
NextSerial ==
    \/ SyncAlone("s1")
    \/ SyncSetLocalState("s1")
    \/ SyncFetchRemoteState("s1")
    \/ SyncLoop("s1")
    \/ UpdateSdkCreateOk("s1")
    \/ UpdateSdkCopyOk("s1")
    \/ SyncEvict("s1")
    \/ SaveCreate("s1")
    \/ SaveWrite("s1")
    \/ SaveRename("s1")
    \/ SaveSwap("s1")
    \/ SyncDelete("s1")
    \/ SyncFinalBump("s1")
    \/ SyncDone("s1")
    \/ StatusAlone
    \/ StatusSetLocalState
    \/ StatusFetchRemoteState
    \/ StatusDone
    \/ GetAlone("w1")
    \/ GetLocalState("w1")
    \/ GetReadLocalState("w1")
    \/ GetSetLocalState("w1")
    \/ GetReload("w1")
    \/ GetOpen("w1")
    \/ GetInsert("w1")
    \/ GetLookup("w1")
    \/ GetDone("w1")
    \/ RemoteChange
    \/ Reopen

SpecSerial == Init /\ [][NextSerial]_vars

\* The steps of a sync call after its first, with fetches that succeed.
SyncStepsOk(p) ==
    \/ SyncSetLocalState(p)
    \/ SyncFetchRemoteState(p)
    \/ SyncLoop(p)
    \/ UpdateSdkCreateOk(p)
    \/ UpdateSdkCopyOk(p)
    \/ SyncEvict(p)
    \/ SaveCreate(p)
    \/ SaveWrite(p)
    \/ SaveRename(p)
    \/ SaveSwap(p)
    \/ SyncDelete(p)
    \/ SyncFinalBump(p)
    \/ SyncDone(p)

\* The steps of a get_memdb call after its first.
GetSteps(w) ==
    \/ GetLocalState(w)
    \/ GetReadLocalState(w)
    \/ GetSetLocalState(w)
    \/ GetReload(w)
    \/ GetOpen(w)
    \/ GetInsert(w)
    \/ GetLookup(w)
    \/ GetDone(w)

\* Two worker threads calling get_memdb concurrently, between the calls of
\* one sync driver.
NextWorkers ==
    \/ SyncAlone("s1")
    \/ SyncStepsOk("s1")
    \/ GetAlone("w1")
    \/ GetSteps("w1")
    \/ GetAlone("w2")
    \/ GetSteps("w2")
    \/ RemoteChange

SpecWorkers == InitCache /\ [][NextWorkers]_vars

\* A remote that publishes identity 1 only.
InitOne == InitCache /\ DOMAIN remote \subseteq {1}

RemoteChangeOne == RemoteChange /\ DOMAIN remote' \subseteq {1}

\* Two sync drivers running concurrently, with fetches that succeed, against
\* a remote that publishes one identity and changes it between their calls.
NextTwoSyncs ==
    \/ SyncReadLocalState("s1")
    \/ SyncStepsOk("s1")
    \/ SyncReadLocalState("s2")
    \/ SyncStepsOk("s2")
    \/ RemoteChangeOne

SpecTwoSyncs == InitOne /\ [][NextTwoSyncs]_vars

\* The steps of a get_sync_status call after its first.
StatusSteps ==
    \/ StatusSetLocalState
    \/ StatusFetchRemoteState
    \/ StatusDone

\* Calls of sync, get_sync_status and get_memdb one after another, against
\* a remote that publishes one identity, changes it and comes and goes
\* between the calls.
NextOffline ==
    \/ SyncAlone("s1")
    \/ SyncStepsOk("s1")
    \/ StatusAlone
    \/ StatusSteps
    \/ GetAlone("w1")
    \/ GetSteps("w1")
    \/ RemoteChangeOne
    \/ S3Change

SpecOffline == InitOne /\ [][NextOffline]_vars

\* Calls of fuzzy_match_sdk_id, on every local state, text, scoring and
\* iteration order.
InitFuzzy == Init /\ remote = EmptyMap /\ ignore_patterns = {}

NextFuzzy ==
    \/ FuzzyMatch
    \/ FuzzyDone

SpecFuzzy == InitFuzzy /\ [][NextFuzzy]_vars

\* One sync driver, with fetches that succeed, and get_sync_status calls
\* running concurrently with it, against a remote that publishes one
\* identity and changes it between the calls.
NextSnapshot ==
    \/ SyncReadLocalState("s1")
    \/ SyncStepsOk("s1")
    \/ GetSyncStatus
    \/ RemoteChangeOne

SpecSnapshot == InitOne /\ [][NextSnapshot]_vars

\* Two worker threads calling get_memdb concurrently, between the calls of
\* one sync driver, against a remote that publishes one identity and
\* changes it between the calls.
NextRace ==
    \/ SyncAlone("s1")
    \/ SyncStepsOk("s1")
    \/ GetAlone("w1")
    \/ GetSteps("w1")
    \/ GetAlone("w2")
    \/ GetSteps("w2")
    \/ RemoteChangeOne

SpecRace == InitOne /\ [][NextRace]_vars

\* ------------------------------------------------------------------- claims

\* The sync call of p has returned Ok.
SyncReturnedOk(p) == spc[p] = "returned" /\ sync_res[p] = "ok"

\* C1: when sync has returned Ok and the catalog it fetched holds no
\* ignored identity, the state file holds exactly the entries of that
\* catalog, and the file of every identity the call fetched holds that
\* entry's content.
C1_SetDiff ==
    (SyncReturnedOk("s1")
     /\ \A i \in state_infos(sync_remote_state["s1"]) : ~sdk_is_ignored(i))
    => /\ stateFile.kind = "state"
       /\ stateFile.state.sdks = sync_remote_state["s1"].sdks
       /\ \A i \in run["s1"].fetched :
            files[i] = MemdbFileOf(sync_remote_state["s1"].sdks[i])

\* A sync call that started with local {1} and fetched the catalog {2} has
\* returned Ok.
C1_Witness ==
    /\ SyncReturnedOk("s1")
    /\ ignore_patterns = {}
    /\ state_infos(Unwrap(run["s1"].start)) = {1}
    /\ state_infos(sync_remote_state["s1"]) = {2}
    /\ run["s1"].fetched = {2}

\* C3: the revision after a sync call that returned Ok is greater than the
\* revision the call started from, and greater than the revision after the
\* previous call when that returned Ok too.
C3_MonotonicRevision ==
    SyncReturnedOk("s1")
    => /\ get_revision > unwrap_or(Unwrap(run["s1"].start).revision, 0)
       /\ IsSome(lastOk) => get_revision > Unwrap(lastOk).revision

\* A sync call that follows one that returned Ok has returned Ok, and it
\* changed no identity.
C3_Witness ==
    /\ SyncReturnedOk("s1")
    /\ IsSome(lastOk)
    /\ run["s1"].fetched = {}
    /\ sync_local_state["s1"].sdks = Unwrap(run["s1"].start).sdks

\* C4: when sync has returned Ok right after a call that returned Ok with
\* the same catalog, the second call has fetched, deleted and evicted
\* nothing, the entries of the state file are those it started from and
\* the revision is one more than after the first call.
C4_Idempotence ==
    (SyncReturnedOk("s1")
     /\ IsSome(lastOk)
     /\ Unwrap(lastOk).remote = sync_remote_state["s1"].sdks)
    => /\ run["s1"].fetched = {}
       /\ run["s1"].deleted = {}
       /\ run["s1"].evicted = {}
       /\ stateFile.state.sdks = Unwrap(run["s1"].start).sdks
       /\ get_revision = Unwrap(lastOk).revision + 1

\* The second of two sync calls against the same catalog, with every
\* identity in it, has returned Ok.
C4_Witness ==
    /\ SyncReturnedOk("s1")
    /\ IsSome(lastOk)
    /\ Unwrap(lastOk).remote = sync_remote_state["s1"].sdks
    /\ state_infos(sync_remote_state["s1"]) = SdkInfos

\* C5: when sync has returned Ok, the file of every identity that was in
\* the local state the call started from and is not in the catalog it
\* fetched is absent.
C5_RemovedFilesDeleted ==
    SyncReturnedOk("s1")
    => \A i \in state_infos(Unwrap(run["s1"].start))
                    \ state_infos(sync_remote_state["s1"]) :
          files[i] = Absent

\* C7: the canonical state file never holds a partial state, and whenever
\* it changes it holds the complete state being saved.
C7_AtomicStateFile ==
    /\ stateFile.kind /= "partial"
    /\ [][ /\ stateFile'.kind /= "partial"
           /\ stateFile' /= stateFile
              => \E p \in Syncers :
                    /\ spc[p] = "save_rename"
                    /\ stateFile' = StateFileOf(sync_local_state[p]) ]_vars

\* The process crashed between the write of the temporary file and the
\* rename: the temporary file holds a newer state than the canonical one.
C7_Witness ==
    /\ spc["s1"] = "idle"
    /\ tmpFile.kind = "state"
    /\ stateFile.kind = "state"
    /\ tmpFile.state /= stateFile.state

\* C8: when sync has returned because the copy of a fetched identity that
\* had a database file on disk failed partway, that file and the state file
\* are what they were before the fetch began.
C8_FailedFetchLeavesFile ==
    (/\ spc["s1"] = "returned"
     /\ sync_res["s1"] = "copy_error"
     /\ Unwrap(run["s1"].fetch).file.kind = "memdb")
    => /\ files[Unwrap(run["s1"].fetch).info] = Unwrap(run["s1"].fetch).file
       /\ stateFile = Unwrap(run["s1"].fetch).stateFile

\* A get_memdb call of w has returned, and no sync call ran or saved a
\* state since it started.
GetReturnedQuiet(w) ==
    /\ gpc[w] = "returned"
    /\ IsSome(g_call[w])
    /\ \A p \in Syncers : spc[p] = "idle"
    /\ Unwrap(g_call[w]).revision = get_revision

\* C2: a get_memdb call for an identity, started after the return of a sync
\* call that returned Ok and had re-fetched that identity, yields a handle
\* opened from the file that sync wrote, whatever get_memdb calls
\* interleaved with that sync.
C2_CacheCoherence ==
    \A w \in Workers :
       (/\ GetReturnedQuiet(w)
        /\ Unwrap(g_call[w]).after_refetch
        /\ g_res[w].kind = "ok")
       => g_res[w].value.file = files[g_info[w]]

\* C6: a get_memdb call for an identity that the durable local state does
\* not record fails with the unknown-identity error.
C6_UnknownWhenNotInState ==
    \A w \in Workers :
       (/\ GetReturnedQuiet(w)
        /\ ~Unwrap(g_call[w]).known)
       => g_res[w] = Err("unknown_sdk")

\* C9: while the ignore patterns are what they are, no step downloads,
\* overwrites or deletes the file of a remote identity that matches one,
\* removes or changes its entry in the state file, or leaves the cache
\* without a handle it held for it; and the missing and different counts
\* get_sync_status returns are those of the remote identities that match no
\* pattern.
C9_IgnorePatterns ==
    [][ /\ \A i \in ignore_patterns \cap DOMAIN remote :
             ignore_patterns' = ignore_patterns
             => /\ files'[i] = files[i]
                /\ \A p \in Syncers :
                     i \notin run'[p].fetched \cup run'[p].evicted
                                 \cup run'[p].deleted
                /\ i \in state_infos(ReadStateFile.rv)
                   => /\ stateFile'.kind = "state"
                      /\ i \in DOMAIN stateFile'.state.sdks
                      /\ stateFile'.state.sdks[i] = stateFile.state.sdks[i]
                /\ i \in DOMAIN memdbs => i \in DOMAIN memdbs'
        /\ (rpc = "fetch_remote_state" /\ rpc' = "returned"
            /\ r_res'.kind = "ok")
           => LET counted == (DOMAIN remote) \ ignore_patterns
              IN  /\ r_res'.value.missing =
                       Cardinality({i \in counted : i \notin state_infos(r_state)})
                  /\ r_res'.value.different =
                       Cardinality({i \in counted :
                           /\ i \in state_infos(r_state)
                           /\ r_state.sdks[i] /= RemoteSdk(i, remote[i])}) ]_vars

\* A sync call has returned Ok with identity 1 ignored, in the catalog with
\* another version than the state file records, and with a handle cached.
C9_Witness ==
    /\ SyncReturnedOk("s1")
    /\ ignore_patterns = {1}
    /\ 1 \in DOMAIN remote
    /\ 1 \in state_infos(ReadStateFile.rv)
    /\ stateFile.state.sdks[1] /= RemoteSdk(1, remote[1])
    /\ 1 \in DOMAIN memdbs
    /\ run["s1"].fetched /= {}

\* C10: with the remote unavailable, get_sync_status returns a status with
\* offline set, zero counts and is_healthy true, and sync returns the
\* Unavailable error; with any other listing error get_sync_status returns
\* an error.
C10_OfflineDegradation ==
    /\ (rpc = "returned" /\ s3 = "unavailable")
       => /\ r_res.kind = "ok"
          /\ r_res.value.offline
          /\ r_res.value.remote_total = 0
          /\ r_res.value.missing = 0
          /\ r_res.value.different = 0
          /\ is_healthy(r_res.value)
    /\ (rpc = "returned" /\ s3 = "broken")
       => r_res = Err("list_error")
    /\ \A p \in Syncers :
         (spc[p] = "returned" /\ s3 = "unavailable")
         => sync_res[p] = "unavailable"

\* get_sync_status has returned an offline status for a stash that a sync
\* had filled before the remote became unavailable.
C10_Witness ==
    /\ rpc = "returned"
    /\ s3 = "unavailable"
    /\ r_res.kind = "ok"
    /\ r_res.value.offline
    /\ r_res.value.revision > 0

\* C11: get_memdb never opens (lines 418-419) a database file that a sync
\* download has truncated and not yet written completely.
C11_NoOpenMidWrite ==
    [][ \A w \in Workers :
          (/\ gpc[w] = "open"
           /\ gpc'[w] /= "open"
           /\ IsSome(get_sdk(g_state[w], g_info[w])))
          => files[g_info[w]].kind /= "partial" ]_vars

\* The workers whose constructed handle of identity i is alive: in the
\* cache, or in the hands of a call that has constructed it.
Constructors(i) ==
    {memdbs[j].by : j \in {i} \cap DOMAIN memdbs}
    \cup {Unwrap(g_memdb[w]).by :
            w \in {v \in Workers : g_info[v] = i /\ IsSome(g_memdb[v])}}

\* C12: between two evictions of an identity by sync, its handle is
\* constructed at most once: while no sync call runs, the handles of one
\* identity that are alive were not constructed by different calls.
C12_ConstructedOnce ==
    (\A p \in Syncers : spc[p] = "idle")
    => \A i \in SdkInfos : Cardinality(Constructors(i)) <= 1

\* The sync call of p is fetching an identity, or has returned because that
\* fetch failed.
SyncAtFetch(p) ==
    \/ spc[p] \in {"update_sdk", "copy"}
    \/ spc[p] = "returned" /\ sync_res[p] \in {"download_error", "copy_error"}

\* The identities the sync call of p fetched before the one it is at.
FetchedBefore(p) == run[p].fetched \ {Head(sync_sdks[p])}

\* C13: whenever sync is fetching an identity, or has returned because that
\* fetch failed, the state file holds the state the call started from with
\* the entry of every identity fetched before it replaced by the remote
\* entry, and a revision raised by one for each of them.
C13_CommittedBeforeNext ==
    SyncAtFetch("s1")
    => LET start == Unwrap(run["s1"].start)
           done == FetchedBefore("s1")
       IN  /\ ReadStateFile.ok
           /\ ReadStateFile.rv.sdks =
                 [i \in state_infos(start) \cup done |->
                     IF i \in done THEN sync_remote_state["s1"].sdks[i]
                                   ELSE start.sdks[i]]
           /\ get_revision = unwrap_or(start.revision, 0) + Cardinality(done)

\* sync has returned because the copy of the second identity it fetched
\* failed.
C13_Witness ==
    /\ spc["s1"] = "returned"
    /\ sync_res["s1"] = "copy_error"
    /\ FetchedBefore("s1") /= {}
    /\ state_infos(Unwrap(run["s1"].start)) /= {}

\* C14: no step that leaves a complete state file where a complete one was
\* lowers the revision it stores or removes it.
C14_RevisionNeverDecreases ==
    [][ (stateFile.kind = "state" /\ stateFile'.kind = "state")
        => /\ unwrap_or(stateFile'.state.revision, 0)
                >= unwrap_or(stateFile.state.revision, 0)
           /\ IsSome(stateFile.state.revision)
              => IsSome(stateFile'.state.revision) ]_vars

\* C15: no step of a sync call made while the remote is unavailable changes
\* the state file, a database file or the handle cache.
C15_UnavailableSyncChangesNothing ==
    [][ \A p \in Syncers :
          (s3 = "unavailable" /\ spc'[p] /= spc[p])
          => /\ stateFile' = stateFile
             /\ files' = files
             /\ memdbs' = memdbs ]_vars

\* A sync call has returned the Unavailable error in a stash that holds the
\* file of identity 1 and a cached handle of it.
C15_Witness ==
    /\ spc["s1"] = "returned"
    /\ sync_res["s1"] = "unavailable"
    /\ s3 = "unavailable"
    /\ 1 \in state_infos(ReadStateFile.rv)
    /\ files[1].kind = "memdb"
    /\ 1 \in DOMAIN memdbs

\* get_sync_status has returned a status computed against the catalog and
\* the revision that the last sync call, which returned Ok, left.
StatusAfterSyncOk ==
    /\ rpc = "returned"
    /\ r_res.kind = "ok"
    /\ ~r_res.value.offline
    /\ IsSome(lastOk)
    /\ Unwrap(lastOk).remote = CatalogSdks(remote)
    /\ Unwrap(lastOk).revision = r_res.value.revision

\* C16: a get_sync_status call after a sync call that returned Ok, against
\* the same catalog, reports nothing missing, nothing different and is
\* healthy.
C16_HealthyAfterSync ==
    StatusAfterSyncOk
    => /\ r_res.value.missing = 0
       /\ r_res.value.different = 0
       /\ is_healthy(r_res.value)

\* The remote entries that match no ignore pattern.
CountedEntries == {i \in DOMAIN remote : i \notin ignore_patterns}

\* C18: a status that get_sync_status computed against a reachable remote
\* holds in remote_total the number of remote entries that match no ignore
\* pattern, in missing the number of those with no local entry, in
\* different the number of those whose local entry is not equal to the
\* remote one, and its lag is their sum.
C18_StatusCounts ==
    (rpc = "returned" /\ r_res.kind = "ok" /\ ~r_res.value.offline)
    => /\ r_res.value.remote_total = Cardinality(CountedEntries)
       /\ r_res.value.missing =
            Cardinality({i \in CountedEntries : i \notin DOMAIN r_state.sdks})
       /\ r_res.value.different =
            Cardinality({i \in CountedEntries :
                /\ i \in DOMAIN r_state.sdks
                /\ r_state.sdks[i] /= RemoteSdk(i, remote[i])})
       /\ lag(r_res.value) = r_res.value.missing + r_res.value.different

\* get_sync_status has returned a status for a catalog with one ignored
\* entry, one entry that differs from the local one and none missing.
C18_Witness ==
    /\ rpc = "returned"
    /\ r_res.kind = "ok"
    /\ ignore_patterns = {1}
    /\ DOMAIN remote = {1, 2}
    /\ r_res.value.remote_total = 1
    /\ r_res.value.different = 1
    /\ r_res.value.missing = 0

\* C19: no step of a get_sync_status call changes the state file, the
\* temporary state file, a database file or the handle cache.
C19_StatusMutatesNothing ==
    [][ rpc' /= rpc
        => /\ stateFile' = stateFile
           /\ tmpFile' = tmpFile
           /\ files' = files
           /\ memdbs' = memdbs ]_vars

\* get_sync_status has returned an offline status in a stash that holds the
\* file of identity 1 and a cached handle of it.
C19_Witness ==
    /\ rpc = "returned"
    /\ r_res.kind = "ok"
    /\ r_res.value.offline
    /\ files[1].kind = "memdb"
    /\ 1 \in DOMAIN memdbs

\* C20: a get_memdb call for an identity that the state file records when
\* the call starts and when it returns (it is never removed in between),
\* and whose file the call has opened, does not return the unknown-identity
\* error.
C20_KnownNeverUnknown ==
    \A w \in Workers :
       (/\ gpc[w] = "returned"
        /\ IsSome(g_call[w])
        /\ Unwrap(g_call[w]).known
        /\ g_info[w] \in state_infos(ReadStateFile.rv)
        /\ IsSome(g_memdb[w]))
       => g_res[w] /= Err("unknown_sdk")

\* The score of an identity against the query, "no match" being the
\* sentinel score.
FuzzyScore(info, query, scoring) ==
    unwrap_or(get_fuzzy_match(info, query, scoring), NoMatchScore)

\* a comes before b in the order of the claim: by score, then the
\* identities not greater than the query before the greater ones, then the
\* greater identity first.
FuzzyPrecedes(a, b, query, scoring) ==
    LET qa == FuzzyScore(a, query, scoring)
        qb == FuzzyScore(b, query, scoring)
    IN  \/ qa < qb
        \/ qa = qb /\ a <= query /\ b > query
        \/ qa = qb /\ ((a > query) <=> (b > query)) /\ a > b

\* C17: the list fuzzy_match_sdk_id returns for a text that names an
\* identity holds the identities of the local state in the order (score,
\* identity > query, reverse identity), cut after MaxMatches; it is the same
\* for every iteration order of the local state; and the query identity,
\* when the local state holds it and no identity scores better, is first.
C17_FuzzyMatchOrder ==
    (fz.pc = "returned" /\ fz.sdk_id.kind = "id")
    => LET query == fz.sdk_id.info
           rv == fz.rv
           n == Cardinality(fz.local)
       IN  /\ Len(rv) = IF n < MaxMatches THEN n ELSE MaxMatches
           /\ \A k \in 1 .. Len(rv) : rv[k] \in fz.local
           /\ \A j, k \in 1 .. Len(rv) :
                j < k => FuzzyPrecedes(rv[j], rv[k], query, fz.scoring)
           /\ \A x \in fz.local \ {rv[k] : k \in 1 .. Len(rv)} :
                \A k \in 1 .. Len(rv) :
                   FuzzyPrecedes(rv[k], x, query, fz.scoring)
           /\ \A order \in Orders :
                fuzzy_match_sdk_id(fz.local, fz.sdk_id, fz.scoring, order) = rv
           /\ (/\ query \in fz.local
               /\ \A x \in fz.local :
                    FuzzyScore(query, query, fz.scoring)
                       <= FuzzyScore(x, query, fz.scoring))
              => rv[1] = query

\* fuzzy_match_sdk_id has returned a list cut after MaxMatches, for a local
\* state that holds the query identity, identities below it and identities
\* above it, all at the same score.
C17_Witness ==
    /\ fz.pc = "returned"
    /\ fz.sdk_id.kind = "id"
    /\ fz.scoring = "flat"
    /\ fz.order = "asc"
    /\ Cardinality(fz.local) > MaxMatches
    /\ fz.sdk_id.info \in fz.local
    /\ \E x \in fz.local : x < fz.sdk_id.info
    /\ \E x \in fz.local : x > fz.sdk_id.info
    /\ Len(fz.rv) = MaxMatches
    /\ fz.rv[1] = fz.sdk_id.info

\* No call of the stash is under way.
NoCallInProgress ==
    /\ \A p \in Syncers : spc[p] = "idle"
    /\ rpc = "idle"
    /\ \A w \in Workers : gpc[w] = "idle"
    /\ fz.pc = "idle"

\* C21: while no call of the stash is under way, the snapshot, when one is
\* loaded, is the state the state file holds.
C21_SnapshotIsDurableState ==
    (NoCallInProgress /\ IsSome(local_state))
    => /\ ReadStateFile.ok
       /\ Unwrap(local_state) = ReadStateFile.rv

\* C22: a get_memdb call for an identity, started after the return of a
\* sync call that returned Ok and had fetched that identity as one with no
\* local entry (published for the first time, or again after a sync call
\* had removed it), yields a handle opened from the file that sync wrote.
C22_RepublishedHandleIsNew ==
    \A w \in Workers :
       (/\ GetReturnedQuiet(w)
        /\ Unwrap(g_call[w]).after_add
        /\ g_res[w].kind = "ok")
       => g_res[w].value.file = files[g_info[w]]

\* C23: when sync has returned Ok, the revision of the state file is the
\* revision the call started from (0 when there was none), plus one for
\* each identity the call fetched, plus one; the identities it removed
\* count for nothing.
C23_RevisionArithmetic ==
    SyncReturnedOk("s1")
    => get_revision = unwrap_or(Unwrap(run["s1"].start).revision, 0)
                         + Cardinality(run["s1"].fetched) + 1

\* A sync call that started from a stored revision has returned Ok after
\* fetching one identity and removing another.
C23_Witness ==
    /\ SyncReturnedOk("s1")
    /\ IsSome(Unwrap(run["s1"].start).revision)
    /\ Cardinality(run["s1"].fetched) = 1
    /\ state_infos(Unwrap(run["s1"].start))
          \ state_infos(sync_remote_state["s1"]) /= {}
    /\ state_infos(ReadStateFile.rv) = state_infos(sync_remote_state["s1"])

\* The remote identities whose local entry, in the state the sync call of p
\* started from, is equal to the remote entry.
UnchangedSdks(p) ==
    {i \in DOMAIN sync_remote_state[p].sdks :
        /\ IsSome(run[p].start)
        /\ i \in state_infos(Unwrap(run[p].start))
        /\ Unwrap(run[p].start).sdks[i] = sync_remote_state[p].sdks[i]}

\* The remote identities that sync has to fetch: those that match no ignore
\* pattern and have no local entry or one that differs.
ChangedSdks(p) ==
    {i \in DOMAIN sync_remote_state[p].sdks :
        /\ ~sdk_is_ignored(i)
        /\ i \notin UnchangedSdks(p)}

\* C24: no step of a sync call downloads a remote identity whose local
\* entry is equal to the remote one, changes its file, takes its handle out
\* of the cache or changes its entry in the state file; and a call that
\* returns Ok has raised the revision by one for each identity it had to
\* fetch and one more, nothing for the unchanged ones.
C24_UnchangedUntouched ==
    [][ \A p \in Syncers :
          /\ \A i \in UnchangedSdks(p) :
               /\ files'[i] = files[i]
               /\ i \notin run'[p].fetched \cup run'[p].evicted
                              \cup run'[p].deleted
               /\ i \in DOMAIN memdbs
                  => (i \in DOMAIN memdbs' /\ memdbs'[i] = memdbs[i])
               /\ stateFile'.kind = "state"
               /\ i \in DOMAIN stateFile'.state.sdks
               /\ stateFile'.state.sdks[i] = Unwrap(run[p].start).sdks[i]
          /\ (spc[p] = "save_swap" /\ spc'[p] = "returned")
             => get_revision = unwrap_or(Unwrap(run[p].start).revision, 0)
                                  + Cardinality(ChangedSdks(p)) + 1 ]_vars

\* A sync call has returned Ok after re-fetching identity 2 and passing
\* over identity 1, whose local entry was equal to the remote one and whose
\* handle was cached.
C24_Witness ==
    /\ SyncReturnedOk("s1")
    /\ 1 \in UnchangedSdks("s1")
    /\ ~sdk_is_ignored(1)
    /\ 1 \in DOMAIN memdbs
    /\ run["s1"].evicted = {2}

\* The get_memdb call of w has returned after it found nothing cached
\* (line 408): it failed, or it returned with a handle it constructed
\* itself in its hands.
GetMissed(w) ==
    /\ gpc[w] = "returned"
    /\ (g_res[w].kind = "err" \/ IsSome(g_memdb[w]))

\* C25: when two get_memdb calls for the same identity, known to the local
\* state, have both found nothing cached and have both returned while no
\* sync call ran, each has returned a handle opened from the file of the
\* identity, and the cache holds one of the handles they returned.
C25_BenignRace ==
    \A v, w \in Workers :
       (/\ v /= w
        /\ g_info[v] = g_info[w]
        /\ GetMissed(v) /\ GetReturnedQuiet(v) /\ Unwrap(g_call[v]).known
        /\ GetMissed(w) /\ GetReturnedQuiet(w) /\ Unwrap(g_call[w]).known)
       => /\ g_res[v].kind = "ok"
          /\ g_res[v].value.file = files[g_info[v]]
          /\ g_info[v] \in DOMAIN memdbs
          /\ memdbs[g_info[v]] \in {g_res[v].value, g_res[w].value}

\* Two concurrent get_memdb calls for identity 1 have both constructed a
\* handle and have both returned the one that w2 constructed.
C25_Witness ==
    /\ GetMissed("w1") /\ GetReturnedQuiet("w1")
    /\ GetMissed("w2") /\ GetReturnedQuiet("w2")
    /\ g_info["w1"] = 1 /\ g_info["w2"] = 1
    /\ g_res["w1"].kind = "ok" /\ g_res["w1"].value.by = "w2"
    /\ g_res["w2"].kind = "ok" /\ g_res["w2"].value.by = "w2"
    /\ Unwrap(g_memdb["w1"]).by = "w1"

====
